---- MODULE Spec2Model ----
(***************************************************************************)
(* Soccer roster application: the team-formation generator of the client   *)
(* page (generateTeamFormation, home.tsx), the position suggester of the   *)
(* storage layer (getSmartPositionSuggestion, storage.ts) and the routes   *)
(* that write the players table (registration, update, check-in toggle,    *)
(* natural-language stats, weekly stats).                                  *)
(*                                                                         *)
(* A route handler is one action per awaited database statement: the       *)
(* statement together with the code that runs up to the next one (or to    *)
(* the response), so handlers of different requests interleave between     *)
(* their statements.                                                       *)
(*                                                                         *)
(* generateTeamFormation is synchronous.  Its only nondeterminism is       *)
(* Math.random(); each action below is one random draw together with all   *)
(* the deterministic code that runs up to the next draw (or to the end of  *)
(* the handler), so no other handler can run between two of its actions.   *)
(***************************************************************************)
EXTENDS Integers, Sequences, FiniteSets, TLC

\* Key order of formation.positions and of idealRatios (Object.entries order).
Kinds == <<"goalkeeper", "defender", "midfielder", "forward">>

KindSet == {Kinds[k] : k \in 1..4}

---------------------------------------------------------------------------
(* Bounds of the model *)

\* Largest roster drawn for the client's player list.
MaxPlayers == 3

\* Largest per-kind count of the formations drawn besides the catalog.
MaxCount == 2

\* Largest career counters drawn for the player a suggestion is asked for.
MaxGoals == 3

MaxAssists == 3

MaxMatches == 6

MaxCards == 1

\* Longest position history drawn.
MaxHistory == 3

\* Most rows drawn besides that player's.
MaxOthers == 2

\* Requests of the roster routes that can be in flight together.
MaxClients == 2

\* Requests of the roster routes served in one run.
MaxRequests == 3

\* rows of a large roster
LargeSize == 41

---------------------------------------------------------------------------
(* Formations *)

Positions(g, d, m, f) ==
    [k \in KindSet |-> CASE k = "goalkeeper" -> g
                         [] k = "defender"   -> d
                         [] k = "midfielder" -> m
                         [] OTHER            -> f]

\* const formations: Formation[] (the catalog offered by the page)
formations ==
    { [name |-> "4-4-2",   positions |-> Positions(1, 4, 4, 2)],
      [name |-> "4-3-3",   positions |-> Positions(1, 4, 3, 3)],
      [name |-> "3-5-2",   positions |-> Positions(1, 3, 5, 2)],
      [name |-> "4-2-3-1", positions |-> Positions(1, 4, 5, 1)] }

\* interface Formation: any four counts are a formation value.
CustomFormations ==
    { [name |-> "custom", positions |-> Positions(g, d, m, f)] :
        g \in 0..MaxCount, d \in 0..MaxCount, m \in 0..MaxCount, f \in 0..MaxCount }

\* useState<Formation | null>(null)
NoFormation == [name |-> "null", positions |-> Positions(0, 0, 0, 0)]

\* A sum that leaves the last key out.
requiredPlayersNoForward(f) ==
    f.positions[Kinds[1]] + f.positions[Kinds[2]] + f.positions[Kinds[3]]

\* Object.values(formation.positions).reduce((sum, count) => sum + count, 0)
requiredPlayers(f) ==
    f.positions[Kinds[1]] + f.positions[Kinds[2]]
        + f.positions[Kinds[3]] + f.positions[Kinds[4]]

---------------------------------------------------------------------------
(* Array helpers *)

\* arr.splice(index, 1) : the array that is left (index is 0-based)
SpliceRest(arr, index) ==
    SubSeq(arr, 1, index) \o SubSeq(arr, index + 2, Len(arr))

\* arr.splice(index, 1)[0] : the element taken out
SpliceTaken(arr, index) == arr[index + 1]

\* The list taken without the check-in filter.
CheckedInAll(ps) == ps

\* The filter with its test negated.
CheckedOut(ps) == SelectSeq(ps, LAMBDA p : ~ p.isCheckedIn)

\* players.filter(p => p.isCheckedIn)
CheckedIn(ps) == SelectSeq(ps, LAMBDA p : p.isCheckedIn)

\* A bucket that is not filtered by kind.
playersByPositionAny(avail, kind) == avail

\* availablePlayers.filter(p => p.position === kind)
playersByPosition(avail, kind) == SelectSeq(avail, LAMBDA p : p.position = kind)

\* { id, name, position, jerseyNumber } pushed on selectedPlayers
FormationPlayer(p, position) ==
    [id |-> p.id, position |-> position, jerseyNumber |-> p.jerseyNumber]

\* A pool that still holds the players already selected.
RemainingOfAll(avail, sel) == avail

\* availablePlayers.filter(p => !selectedPlayers.some(sp => sp.id === p.id))
RemainingOf(avail, sel) ==
    SelectSeq(avail, LAMBDA p : ~ \E n \in 1..Len(sel) : sel[n].id = p.id)

\* selectedPlayers.filter(p => p.position === position).length
CurrentCount(sel, kind) == Len(SelectSeq(sel, LAMBDA sp : sp.position = kind))

\* Slots counted from 0 instead of from currentCount.
SlotsOfAll(sel, f, kind) == [n \in 1..f.positions[kind] |-> kind]

\* the slots one kind still misses: for (i = currentCount; i < requiredCount; i++)
SlotsOf(sel, f, kind) ==
    IF CurrentCount(sel, kind) < f.positions[kind]
    THEN [n \in 1..(f.positions[kind] - CurrentCount(sel, kind)) |-> kind]
    ELSE << >>

\* positionsNeeded built from the last key to the first.
PositionsNeededBackwards(sel, f) ==
    SlotsOf(sel, f, Kinds[4]) \o SlotsOf(sel, f, Kinds[3])
        \o SlotsOf(sel, f, Kinds[2]) \o SlotsOf(sel, f, Kinds[1])

\* positionsNeeded, built in the key order of formation.positions
PositionsNeeded(sel, f) ==
    SlotsOf(sel, f, Kinds[1]) \o SlotsOf(sel, f, Kinds[2])
        \o SlotsOf(sel, f, Kinds[3]) \o SlotsOf(sel, f, Kinds[4])

---------------------------------------------------------------------------
(* Stored text: position_history is a text column holding a JSON array *)

\* A text is the sequence of its JSON tokens; a string token is written as the
\* string itself.  The empty sequence is the NULL column (and the empty
\* string): both are falsy in `player.positionHistory || "[]"`.
NullText == << >>

RECURSIVE JoinItems(_)
JoinItems(arr) ==
    IF Len(arr) = 0 THEN << >>
    ELSE IF Len(arr) = 1 THEN <<arr[1]>>
    ELSE <<arr[1], ",">> \o JoinItems(Tail(arr))

\* JSON.stringify(array of strings)
JSONStringify(arr) == <<"[">> \o JoinItems(arr) \o <<"]">>

Punctuation == {"[", "]", ",", "null"}

\* the tokens between the brackets are items separated by single commas
RECURSIVE ItemsOk(_)
ItemsOk(toks) ==
    IF Len(toks) = 0 THEN FALSE
    ELSE IF Len(toks) = 1 THEN toks[1] \notin Punctuation
    ELSE /\ toks[1] \notin Punctuation
         /\ toks[2] = ","
         /\ ItemsOk(SubSeq(toks, 3, Len(toks)))

\* every second token, from the first on
RECURSIVE ItemsOf(_)
ItemsOf(toks) ==
    IF Len(toks) = 0 THEN << >>
    ELSE IF Len(toks) = 1 THEN <<toks[1]>>
    ELSE <<toks[1]>> \o ItemsOf(SubSeq(toks, 3, Len(toks)))

\* JSON.parse(text): the value, or throws (SyntaxError).  The values met here
\* are null and arrays of strings.
JSONParse(text) ==
    IF text = <<"null">>
    THEN [throws |-> FALSE, isNull |-> TRUE, items |-> << >>]
    ELSE IF Len(text) >= 2 /\ text[1] = "[" /\ text[Len(text)] = "]"
    THEN LET inner == SubSeq(text, 2, Len(text) - 1) IN
         IF Len(inner) = 0
         THEN [throws |-> FALSE, isNull |-> FALSE, items |-> << >>]
         ELSE IF ItemsOk(inner)
         THEN [throws |-> FALSE, isNull |-> FALSE, items |-> ItemsOf(inner)]
         ELSE [throws |-> TRUE, isNull |-> FALSE, items |-> << >>]
    ELSE [throws |-> TRUE, isNull |-> FALSE, items |-> << >>]

\* JSON.parse(player.positionHistory || "[]")
ParseHistory(text) ==
    JSONParse(IF text = NullText THEN JSONStringify(<< >>) ELSE text)

---------------------------------------------------------------------------
(* analyzeTeamPositionNeeds *)

\* positionCounts[position] || 0
CountAt(rows, kind) == Cardinality({ r \in rows : r.position = kind })

\* The product rounded down instead of up.
IdealFloor(total, kind) ==
    CASE kind = "goalkeeper" -> total \div 10
      [] kind = "defender"   -> (2 * total) \div 5
      [] kind = "midfielder" -> (2 * total) \div 5
      [] OTHER               -> total \div 5

\* Math.ceil(totalPlayers * ratio) for the ratios 0.1, 0.4, 0.4, 0.2 of
\* idealRatios; on integers the product and its ceiling are exact:
\* ceil(n / 10), ceil(2n / 5), ceil(2n / 5), ceil(n / 5).
Ideal(total, kind) ==
    CASE kind = "goalkeeper" -> (total + 9) \div 10
      [] kind = "defender"   -> (2 * total + 4) \div 5
      [] kind = "midfielder" -> (2 * total + 4) \div 5
      [] OTHER               -> (total + 4) \div 5

\* needs[position] = Math.max(0, ideal - current)
analyzeTeamPositionNeeds(rows) ==
    [k \in KindSet |->
        IF Ideal(Cardinality(rows), k) - CountAt(rows, k) > 0
        THEN Ideal(Cardinality(rows), k) - CountAt(rows, k)
        ELSE 0]

\* Object.entries(positionNeeds).sort(([,a], [,b]) => b - a)[0]?.[0] : the
\* sort is stable, so the first key of the largest need in key order.
mostNeededPosition(needs) ==
    Kinds[CHOOSE k \in 1..4 :
            /\ \A j \in 1..4 : needs[Kinds[j]] <= needs[Kinds[k]]
            /\ \A j \in 1..(k - 1) : needs[Kinds[j]] < needs[Kinds[k]]]

---------------------------------------------------------------------------
(* getSmartPositionSuggestion: the rules between its two reads *)

None == [position |-> "none", rule |-> "none"]

\* The two performance tests in the other order.
PerformanceAssistsFirst(p) ==
    IF p.assists >= 3 THEN [position |-> "midfielder", rule |-> "performance"]
    ELSE IF p.goals >= 3 THEN [position |-> "forward", rule |-> "performance"]
    ELSE [position |-> "none", rule |-> "none"]

\* The performance tier without its goals test.
PerformanceAssistsOnly(p) ==
    IF p.assists >= 3 THEN [position |-> "midfielder", rule |-> "performance"]
    ELSE [position |-> "none", rule |-> "none"]

\* Priority 1: performance
Performance(p) ==
    IF p.goals >= 3 THEN [position |-> "forward", rule |-> "performance"]
    ELSE IF p.assists >= 3 THEN [position |-> "midfielder", rule |-> "performance"]
    ELSE None

\* goals / matchesPlayed > 0.5 and assists / matchesPlayed > 0.3 on integers
\* (matchesPlayed > 5 where they are evaluated)
GoalsPerMatchHigh(p) == 2 * p.goals > p.matchesPlayed

AssistsPerMatchHigh(p) == 10 * p.assists > 3 * p.matchesPlayed

\* A copy before the last return that asks for five matches, not for more
\* than five.
ExperienceLooseCopy(p, tag) ==
    IF p.matchesPlayed > 5 \/ (tag = "fallback" /\ p.matchesPlayed = 5)
    THEN IF 2 * p.goals > p.matchesPlayed THEN [position |-> "forward", rule |-> tag]
         ELSE IF 10 * p.assists > 3 * p.matchesPlayed
              THEN [position |-> "midfielder", rule |-> tag]
         ELSE IF p.redCards + p.yellowCards = 0 THEN [position |-> "defender", rule |-> tag]
         ELSE [position |-> "none", rule |-> "none"]
    ELSE [position |-> "none", rule |-> "none"]

\* Priority 2, and its copy before the last return: experience
Experience(p, tag) ==
    IF p.matchesPlayed > 5
    THEN IF GoalsPerMatchHigh(p) THEN [position |-> "forward", rule |-> tag]
         ELSE IF AssistsPerMatchHigh(p) THEN [position |-> "midfielder", rule |-> tag]
         ELSE IF p.redCards + p.yellowCards = 0 THEN [position |-> "defender", rule |-> tag]
         ELSE None
    ELSE None

\* Priority 3: team composition needs
TeamNeeds(rows) ==
    LET needs == analyzeTeamPositionNeeds(rows)
        most == mostNeededPosition(needs)
    IN  IF needs[most] > 1 THEN [position |-> most, rule |-> "needs"] ELSE None

\* Object.keys(positionCounts): the kinds of the history by first occurrence
RECURSIVE KeysOf(_)
KeysOf(hist) ==
    IF Len(hist) = 0 THEN << >>
    ELSE LET front == KeysOf(SubSeq(hist, 1, Len(hist) - 1))
             last == hist[Len(hist)]
         IN  IF \E n \in 1..Len(front) : front[n] = last
             THEN front ELSE Append(front, last)

\* positionCounts[pos]; a key that is absent reads undefined, and
\* `undefined > n` is false just as `0 > n` is for the counts n >= 1.
CountIn(hist, pos) == Cardinality({ n \in 1..Len(hist) : hist[n] = pos })

\* The reduce with its comparison turned round.
RECURSIVE ReduceLeastPlayed(_, _, _)
ReduceLeastPlayed(hist, keys, a) ==
    IF Len(keys) = 0 THEN a
    ELSE ReduceLeastPlayed(hist, Tail(keys),
                           IF CountIn(hist, a) < CountIn(hist, keys[1]) THEN a ELSE keys[1])

\* keys.reduce((a, b) => positionCounts[a] > positionCounts[b] ? a : b, start)
RECURSIVE ReduceMostPlayed(_, _, _)
ReduceMostPlayed(hist, keys, a) ==
    IF Len(keys) = 0 THEN a
    ELSE ReduceMostPlayed(hist, Tail(keys),
                          IF CountIn(hist, a) > CountIn(hist, keys[1]) THEN a ELSE keys[1])

\* Count position frequency from history
mostPlayedPosition(p, hist) == ReduceMostPlayed(hist, KeysOf(hist), p.position)

\* A missing player answered with no position.
MissingNotFound == [position |-> "not found", rule |-> "missing"]

\* if (!player) return "midfielder";
Missing == [position |-> "midfielder", rule |-> "missing"]

\* A catch block that throws the error on.
Rethrown(p) == [position |-> "raised", rule |-> "catch"]

\* catch (error) { console.error(...); return player.position; }
Caught(p) == [position |-> p.position, rule |-> "catch"]

\* The default of a missing player returned for every player.
DefaultMidfielder(p) == [position |-> "midfielder", rule |-> "default"]

\* return player.position; // Keep current position as fallback
Default(p) == [position |-> p.position, rule |-> "default"]

\* The code from the try to the call of getAllPlayers: the parse and the
\* first two priorities.  "roster" means no return yet.
BeforeRoster(p) ==
    LET parsed == ParseHistory(p.positionHistory) IN
    IF parsed.throws THEN Caught(p)
    ELSE IF Performance(p) # None THEN Performance(p)
    ELSE IF Experience(p, "experience") # None THEN Experience(p, "experience")
    ELSE [position |-> "roster", rule |-> "none"]

\* The code after getAllPlayers answered.
AfterRoster(p, allPlayers) ==
    LET parsed == ParseHistory(p.positionHistory) IN
    IF TeamNeeds(allPlayers) # None THEN TeamNeeds(allPlayers)
    ELSE IF parsed.isNull THEN Caught(p)
    ELSE IF Len(parsed.items) > 1
    THEN [position |-> mostPlayedPosition(p, parsed.items), rule |-> "history"]
    ELSE IF Experience(p, "fallback") # None THEN Experience(p, "fallback")
    ELSE Default(p)

---------------------------------------------------------------------------
(* State *)

VARIABLES
    players,            \* the page's player list (useQuery data)
    formation,          \* argument of the running call
    apc,                \* where generateTeamFormation stands
    availablePlayers,
    selectedPlayers,
    kindIdx,            \* index in Kinds of the outer preferred loop
    i,                  \* inner loop counter of the preferred loop
    positionPlayers,    \* the spliced copy of the current bucket
    remainingPlayers,
    positionsNeeded,
    gapIdx,             \* loop counter of the gap-filling loop
    toast,              \* the last toast shown
    generatedTeam,      \* useState<FormationPlayer[]>([])
    selectedFormation,  \* useState<Formation | null>(null)
    table,              \* the rows of the players table (server)
    spc,                \* where getSmartPositionSuggestion stands
    playerId,           \* its argument
    player,             \* the row getPlayer answered
    allPlayers,         \* the rows getAllPlayers answered
    positionNeeds,      \* what analyzeTeamPositionNeeds returned for them
    suggestion,         \* the position it returned
    rule,               \* the return statement that produced it
    pending,            \* per client, the route handler waiting for its write
    response,           \* the last response sent by a roster route
    nextId              \* the serial of players.id

locals == <<availablePlayers, selectedPlayers, kindIdx, i, positionPlayers,
            remainingPlayers, positionsNeeded, gapIdx>>

ui == <<toast, generatedTeam, selectedFormation>>

page == <<players, formation, apc, locals, ui>>

routes == <<pending, response, nextId>>

suggester == <<spc, playerId, player, allPlayers, positionNeeds, suggestion, rule>>

server == <<table, suggester, routes>>

vars == <<page, server>>

NoToast == [title |-> "none", required |-> 0, available |-> 0, count |-> 0]

---------------------------------------------------------------------------
(* Inputs *)

\* A player row as the page receives it.  Ids are the list positions and
\* jersey numbers follow them: GET /api/players answers in jersey order.
PlayerRow(n, position, isCheckedIn) ==
    [id |-> n, position |-> position, jerseyNumber |-> n + 1,
     isCheckedIn |-> isCheckedIn]

Rosters(maxLen) ==
    UNION { { [n \in 1..len |-> PlayerRow(n, pos[n], chk[n])] :
                pos \in [1..len -> KindSet], chk \in [1..len -> BOOLEAN] } :
            len \in 0..maxLen }

InitLocals ==
    /\ availablePlayers = << >>
    /\ selectedPlayers = << >>
    /\ kindIdx = 0
    /\ i = 0
    /\ positionPlayers = << >>
    /\ remainingPlayers = << >>
    /\ positionsNeeded = << >>
    /\ gapIdx = 0

InitUi ==
    /\ toast = NoToast
    /\ generatedTeam = << >>
    /\ selectedFormation = NoFormation

\* { goals: 0, assists: 0, matches: 0 }
NoWeek == [goals |-> 0, assists |-> 0, matches |-> 0]

\* weeklyStats as createPlayer writes it
NewWeeklyStats == [thisWeek |-> NoWeek, lastWeek |-> NoWeek]

\* A row of the players table (the columns the model reads).
Row(id, position, st, text) ==
    [id |-> id, position |-> position, jerseyNumber |-> id, isCheckedIn |-> FALSE,
     goals |-> st.goals, assists |-> st.assists, redCards |-> st.redCards,
     yellowCards |-> st.yellowCards, matchesPlayed |-> st.matchesPlayed,
     positionHistory |-> text, weeklyStats |-> NewWeeklyStats]

Stats(g, a, r, y, m) ==
    [goals |-> g, assists |-> a, redCards |-> r, yellowCards |-> y, matchesPlayed |-> m]

\* what getPlayer answers for an id without a row
NoRow == [id |-> 0]

\* Career counters over their whole ranges, and the two players the
\* specification names (6 goals in 10 matches; 5 goals in 1 match).
StatsRange ==
    { Stats(g, a, r, y, m) : g \in 0..MaxGoals, a \in 0..MaxAssists,
                             r \in {0, MaxCards}, y \in {0, MaxCards}, m \in 0..MaxMatches }
        \cup { Stats(6, 1, 0, 0, 10), Stats(5, 0, 0, 0, 1) }

\* Counters on which neither performance nor goals or assists per match decide.
StatsLow == { Stats(0, 0, 0, y, m) : y \in {0, 1}, m \in {0, 6} }

\* Histories as createPlayer writes them, of every length up to the bound.
Histories(maxLen) == UNION { [1..len -> KindSet] : len \in 0..maxLen }

\* Texts JSON.parse rejects: a cut-off array and a dangling comma.
RejectedTexts == { <<"[", "defender">>, <<"[", "defender", ",", "]">> }

\* Those, the JSON null and the NULL column.
OddTexts == RejectedTexts \cup { <<"null">>, NullText }

\* The other rows: fresh registrations, their kinds in a fixed order (only
\* their number per kind is read).
OtherRows ==
    UNION { { { Row(n + 1, Kinds[ks[n]], Stats(0, 0, 0, 0, 0), JSONStringify(<<Kinds[ks[n]]>>)) :
                  n \in 1..len } :
              ks \in { f \in [1..len -> 1..4] : \A a, b \in 1..len : a <= b => f[a] <= f[b] } } :
            len \in 0..MaxOthers }

\* The row a suggestion is asked for: either its counters range freely and
\* its history is the one createPlayer wrote or a text JSON.parse rejects ...
StatsRows ==
    UNION { { Row(1, pos, st, text) :
                st \in StatsRange,
                text \in { JSONStringify(<<pos>>), <<"[", "defender">> } } :
            pos \in KindSet }

\* ... or its history ranges freely and its counters are low.
HistoryRows ==
    { Row(1, pos, st, text) :
        pos \in KindSet, st \in StatsLow,
        text \in { JSONStringify(h) : h \in Histories(MaxHistory) } \cup OddTexts }

\* Ten fresh registrations: a goalkeeper, four defenders, four midfielders
\* and a forward, with the last ten jersey numbers.
SquadKind(n) ==
    IF n = 1 THEN "goalkeeper"
    ELSE IF n <= 5 THEN "defender"
    ELSE IF n <= 9 THEN "midfielder"
    ELSE "forward"

SquadRows ==
    { Row(89 + n, SquadKind(n), Stats(0, 0, 0, 0, 0), JSONStringify(<<SquadKind(n)>>)) :
        n \in 1..10 }

\* Tables: that row and the others.
Tables ==
    { {r} \cup others : r \in StatsRows \cup HistoryRows,
                        others \in OtherRows \cup {SquadRows} }

InitPage ==
    /\ formation = NoFormation
    /\ apc = "idle"
    /\ InitLocals
    /\ InitUi

\* no request of a roster route yet
NoRequest == [op |-> "none"]

NoResponse == [n |-> 0, status |-> 0, request |-> NoRequest]

Clients == 1..MaxClients

InitRoutes ==
    /\ pending = [c \in Clients |-> NoRequest]
    /\ response = NoResponse
    /\ nextId = 1

InitServer ==
    /\ spc = "idle"
    /\ playerId = 0
    /\ player = NoRow
    /\ allPlayers = {}
    /\ positionNeeds = [k \in KindSet |-> 0]
    /\ suggestion = "none"
    /\ rule = "none"
    /\ InitRoutes

\* A full squad, everyone checked in, listed kind by kind.
Squad(g, d, m, f) ==
    [n \in 1..(g + d + m + f) |->
        PlayerRow(n, IF n <= g THEN "goalkeeper"
                     ELSE IF n <= g + d THEN "defender"
                     ELSE IF n <= g + d + m THEN "midfielder"
                     ELSE "forward", TRUE)]

\* The player lists drawn: every small list, and the squad of eleven that
\* matches 4-4-2 exactly.
InputRosters == Rosters(MaxPlayers) \cup { Squad(1, 4, 4, 2) }

\* Squads of twelve with eight midfielders and four players of other kinds.
TwelveSquads == { Squad(1, 2, 8, 1), Squad(2, 1, 8, 1) }

Init ==
    /\ players \in InputRosters
    /\ InitPage
    /\ table = {}
    /\ InitServer

InitScenario ==
    /\ players \in TwelveSquads
    /\ InitPage
    /\ table = {}
    /\ InitServer

InitSuggest ==
    /\ players = << >>
    /\ InitPage
    /\ table \in Tables
    /\ InitServer

---------------------------------------------------------------------------
(* generateTeamFormation *)

\* A success that sets the team and not the formation.
CompleteTeamOnly(f, sel) ==
    /\ apc' = "done"
    /\ generatedTeam' = sel
    /\ UNCHANGED selectedFormation
    /\ toast' = [title |-> "Team Formation Generated!", required |-> 0,
                 available |-> 0, count |-> Len(sel)]

\* setGeneratedTeam, setSelectedFormation and the success toast
Complete(f, sel) ==
    /\ apc' = "done"
    /\ generatedTeam' = sel
    /\ selectedFormation' = f
    /\ toast' = [title |-> "Team Formation Generated!", required |-> 0,
                 available |-> 0, count |-> Len(sel)]

\* The gap-filling loop from counter g on: it stands at a draw, or has ended.
GapLoop(f, sel, rem, need, g) ==
    /\ remainingPlayers' = rem
    /\ positionsNeeded' = need
    /\ gapIdx' = g
    /\ selectedPlayers' = sel
    /\ IF g < Len(need) /\ Len(rem) > 0
       THEN apc' = "gap" /\ UNCHANGED ui
       ELSE Complete(f, sel)

\* After the preferred loop: if (selectedPlayers.length < requiredPlayers) ...
AfterPreferred(f, avail, sel) ==
    /\ kindIdx' = 5
    /\ i' = 0
    /\ positionPlayers' = << >>
    /\ IF Len(sel) < requiredPlayers(f)
       THEN GapLoop(f, sel, RemainingOf(avail, sel), PositionsNeeded(sel, f), 0)
       ELSE /\ selectedPlayers' = sel
            /\ UNCHANGED <<remainingPlayers, positionsNeeded, gapIdx>>
            /\ Complete(f, sel)

\* The preferred loop leaving the last slot of every kind unfilled.
RECURSIVE PreferredLoopShort(_, _, _, _, _)
PreferredLoopShort(f, avail, k, n, b) ==
    IF n + 1 < f.positions[Kinds[k]] /\ Len(b) > 0
    THEN [k |-> k, i |-> n, bucket |-> b]
    ELSE IF k = 4
         THEN [k |-> 5, i |-> 0, bucket |-> << >>]
         ELSE PreferredLoopShort(f, avail, k + 1, 0, playersByPosition(avail, Kinds[k + 1]))

\* The preferred loop from kind k, counter n, bucket copy b on, up to its
\* next draw: [k, i, bucket], with k = 5 when the loop has ended.
RECURSIVE PreferredLoop(_, _, _, _, _)
PreferredLoop(f, avail, k, n, b) ==
    IF n < f.positions[Kinds[k]] /\ Len(b) > 0
    THEN [k |-> k, i |-> n, bucket |-> b]
    ELSE IF k = 4
         THEN [k |-> 5, i |-> 0, bucket |-> << >>]
         ELSE PreferredLoop(f, avail, k + 1, 0, playersByPosition(avail, Kinds[k + 1]))

\* Go on from the preferred loop at (k, n, b) with sel selected so far.
Preferred(f, avail, sel, k, n, b) ==
    LET at == PreferredLoop(f, avail, k, n, b) IN
    IF at.k = 5
    THEN AfterPreferred(f, avail, sel)
    ELSE /\ kindIdx' = at.k
         /\ i' = at.i
         /\ positionPlayers' = at.bucket
         /\ selectedPlayers' = sel
         /\ apc' = "preferred"
         /\ UNCHANGED <<remainingPlayers, positionsNeeded, gapIdx>>
         /\ UNCHANGED ui

\* The call, up to its first draw: both early returns, the grouping by
\* position and the start of the preferred loop.
GenerateTeamFormation(f) ==
    /\ apc = "idle"
    /\ formation' = f
    /\ UNCHANGED <<players, server>>
    /\ LET avail == CheckedIn(players) IN
       /\ availablePlayers' = avail
       /\ IF Len(avail) = 0
          THEN /\ toast' = [title |-> "No Players Available", required |-> 0,
                            available |-> 0, count |-> 0]
               /\ apc' = "done"
               /\ UNCHANGED <<selectedPlayers, kindIdx, i, positionPlayers,
                              remainingPlayers, positionsNeeded, gapIdx>>
               /\ UNCHANGED <<generatedTeam, selectedFormation>>
          ELSE IF Len(avail) < requiredPlayers(f)
          THEN /\ toast' = [title |-> "Insufficient Players",
                            required |-> requiredPlayers(f),
                            available |-> Len(avail), count |-> 0]
               /\ apc' = "done"
               /\ UNCHANGED <<selectedPlayers, kindIdx, i, positionPlayers,
                              remainingPlayers, positionsNeeded, gapIdx>>
               /\ UNCHANGED <<generatedTeam, selectedFormation>>
          ELSE Preferred(f, avail, << >>, 1, 0, playersByPosition(avail, Kinds[1]))

\* One draw of the preferred loop: splice a random player of the bucket copy
\* and push it with the slot's kind, then run on to the next draw.
PickPreferred ==
    /\ apc = "preferred"
    /\ \E randomIndex \in 0..(Len(positionPlayers) - 1) :
         LET selectedPlayer == SpliceTaken(positionPlayers, randomIndex)
             rest == SpliceRest(positionPlayers, randomIndex)
             sel == Append(selectedPlayers, FormationPlayer(selectedPlayer, Kinds[kindIdx]))
         IN  Preferred(formation, availablePlayers, sel, kindIdx, i + 1, rest)
    /\ UNCHANGED <<players, formation, availablePlayers, server>>

\* The draw of the gap-filling loop writing the slot's kind into the drawn
\* player's own record instead of into a new one.
PickGapInPlace ==
    /\ apc = "gap"
    /\ \E randomPlayerIndex \in 0..(Len(remainingPlayers) - 1) :
         LET randomPlayer == SpliceTaken(remainingPlayers, randomPlayerIndex)
             rest == SpliceRest(remainingPlayers, randomPlayerIndex)
             sel == Append(selectedPlayers,
                           FormationPlayer(randomPlayer, positionsNeeded[gapIdx + 1]))
         IN  /\ GapLoop(formation, sel, rest, positionsNeeded, gapIdx + 1)
             /\ players' = [n \in 1..Len(players) |->
                               IF players[n].id = randomPlayer.id
                               THEN [players[n] EXCEPT !.position = positionsNeeded[gapIdx + 1]]
                               ELSE players[n]]
    /\ UNCHANGED <<formation, availablePlayers, kindIdx, i, positionPlayers, server>>

\* One draw of the gap-filling loop: splice a random remaining player and
\* push it with positionsNeeded[i], then run on to the next draw.
PickGap ==
    /\ apc = "gap"
    /\ \E randomPlayerIndex \in 0..(Len(remainingPlayers) - 1) :
         LET randomPlayer == SpliceTaken(remainingPlayers, randomPlayerIndex)
             rest == SpliceRest(remainingPlayers, randomPlayerIndex)
             sel == Append(selectedPlayers,
                           FormationPlayer(randomPlayer, positionsNeeded[gapIdx + 1]))
         IN  GapLoop(formation, sel, rest, positionsNeeded, gapIdx + 1)
    /\ UNCHANGED <<players, formation, availablePlayers, kindIdx, i, positionPlayers,
                   server>>

Next ==
    \/ \E f \in formations \cup CustomFormations : GenerateTeamFormation(f)
    \/ PickPreferred
    \/ PickGap

Spec == Init /\ [][Next]_vars

\* The page offers the catalog only.
NextCatalog ==
    \/ \E f \in formations : GenerateTeamFormation(f)
    \/ PickPreferred
    \/ PickGap

SpecScenario == InitScenario /\ [][NextCatalog]_vars

---------------------------------------------------------------------------
(* The formation tab over several clicks *)

\* The handler has returned: its locals are gone and the page waits for the
\* next click.
Return ==
    /\ apc = "done"
    /\ apc' = "idle"
    /\ formation' = NoFormation
    /\ availablePlayers' = << >>
    /\ selectedPlayers' = << >>
    /\ kindIdx' = 0
    /\ i' = 0
    /\ positionPlayers' = << >>
    /\ remainingPlayers' = << >>
    /\ positionsNeeded' = << >>
    /\ gapIdx' = 0
    /\ UNCHANGED <<players, ui, server>>

\* The Clear Formation button, rendered under a generated team.
ClearFormation ==
    /\ apc = "idle"
    /\ Len(generatedTeam) > 0
    /\ selectedFormation # NoFormation
    /\ generatedTeam' = << >>
    /\ selectedFormation' = NoFormation
    /\ UNCHANGED <<players, formation, apc, locals, toast, server>>

\* The player list fetched again after a check-in was toggled.
Refetch(n) ==
    /\ apc = "idle"
    /\ n \in 1..Len(players)
    /\ players' = [players EXCEPT ![n].isCheckedIn = ~ @]
    /\ UNCHANGED <<formation, apc, locals, ui, server>>

\* Formations of one, two and three players.
SmallFormations ==
    { [name |-> "custom", positions |-> Positions(1, 0, 0, 0)],
      [name |-> "custom", positions |-> Positions(0, 1, 1, 0)],
      [name |-> "custom", positions |-> Positions(1, 1, 0, 1)] }

\* A goalkeeper, a defender and a midfielder, all checked in.
InitClicks ==
    /\ players = Squad(1, 1, 1, 0)
    /\ InitPage
    /\ table = {}
    /\ InitServer

NextClicks ==
    \/ \E f \in SmallFormations : GenerateTeamFormation(f)
    \/ PickPreferred
    \/ PickGap
    \/ Return
    \/ ClearFormation
    \/ \E n \in 1..Len(players) : Refetch(n)

SpecClicks == InitClicks /\ [][NextClicks]_vars

---------------------------------------------------------------------------
(* getSmartPositionSuggestion *)

\* db.select().from(players).where(eq(players.id, id)) : player || undefined
getPlayer(id) ==
    IF \E r \in table : r.id = id THEN CHOOSE r \in table : r.id = id ELSE NoRow

\* db.select().from(players).orderBy(players.jerseyNumber); the suggester
\* reads the number of rows and their positions only.
getAllPlayers == table

\* The read of getPlayer and the code up to the next read: the answer for a
\* missing row, the parse, priorities 1 and 2, or the call of getAllPlayers.
SuggestReadPlayer(id) ==
    /\ spc = "idle"
    /\ playerId' = id
    /\ player' = getPlayer(id)
    /\ IF getPlayer(id) = NoRow
       THEN /\ suggestion' = Missing.position
            /\ rule' = Missing.rule
            /\ spc' = "done"
       ELSE LET out == BeforeRoster(getPlayer(id)) IN
            IF out.position = "roster"
            THEN /\ spc' = "roster"
                 /\ UNCHANGED <<suggestion, rule>>
            ELSE /\ suggestion' = out.position
                 /\ rule' = out.rule
                 /\ spc' = "done"
    /\ UNCHANGED <<table, allPlayers, positionNeeds, page, routes>>

\* The read of getAllPlayers and the code up to the return.
SuggestReadRoster ==
    /\ spc = "roster"
    /\ allPlayers' = getAllPlayers
    /\ positionNeeds' = analyzeTeamPositionNeeds(getAllPlayers)
    /\ LET out == AfterRoster(player, getAllPlayers) IN
       /\ suggestion' = out.position
       /\ rule' = out.rule
    /\ spc' = "done"
    /\ UNCHANGED <<table, playerId, player, page, routes>>

\* DELETE /api/players/:id, deletePlayer: one statement on the table.  It is
\* taken while a suggestion waits for getAllPlayers: served before the call it
\* only gives another initial table, and after the return it cannot change
\* the answer.
DeletePlayer(id) ==
    /\ spc = "roster"
    /\ \E r \in table : r.id = id
    /\ table' = { r \in table : r.id # id }
    /\ UNCHANGED <<suggester, page, routes>>

\* The ids asked for: the row under study and an id without a row.
RequestIds == {1, MaxOthers + 2}

NextSuggest ==
    \/ \E id \in RequestIds : SuggestReadPlayer(id)
    \/ SuggestReadRoster
    \/ DeletePlayer(1)

SpecSuggest == InitSuggest /\ [][NextSuggest]_vars

---------------------------------------------------------------------------
(* getSmartPositionSuggestion on large rosters *)

\* The other rows of a large roster: fresh registrations, g goalkeepers, then
\* d defenders, m midfielders and f forwards, with the ids from 2 on.  The
\* kind of the n-th of them:
LargeKind(n, g, d, m) ==
    IF n <= g THEN "goalkeeper"
    ELSE IF n <= g + d THEN "defender"
    ELSE IF n <= g + d + m THEN "midfielder"
    ELSE "forward"

LargeOthers(g, d, m, f) ==
    { Row(n + 1, LargeKind(n, g, d, m), Stats(0, 0, 0, 0, 0),
          JSONStringify(<<LargeKind(n, g, d, m)>>)) :
        n \in 1..(g + d + m + f) }

\* The row asked for: a goalkeeper whom no counter decides, with the history
\* createPlayer wrote, a longer one, or a text JSON.parse rejects.
LargeSubjects ==
    { Row(1, Kinds[1], Stats(0, 0, 0, 0, 0), text) :
        text \in { JSONStringify(<<Kinds[1]>>),
                   JSONStringify(<<"defender", "defender", "forward">>),
                   <<"[", "defender">> } }

\* Every roster of size rows, by the number of rows of each kind.
LargeTables(size) ==
    { {r} \cup LargeOthers(c[1], c[2], c[3], size - 1 - c[1] - c[2] - c[3]) :
        r \in LargeSubjects,
        c \in { t \in (0..(size - 1)) \X (0..(size - 1)) \X (0..(size - 1)) :
                  t[1] + t[2] + t[3] <= size - 1 } }

InitLarge ==
    /\ players = << >>
    /\ InitPage
    /\ table \in LargeTables(LargeSize)
    /\ InitServer

SpecLarge == InitLarge /\ [][NextSuggest]_vars

---------------------------------------------------------------------------
(* POST /api/players and PATCH /api/players/:id *)

\* jerseyNumber: z.number().min(1, ...).max(99, ...)
MinJersey == 1

MaxJersey == 99

\* An optional key of an object: absent, or given with its value.
Absent == {}

Given(v) == {v}

ValueOf(key) == CHOOSE v \in key : TRUE

\* the career counters
CounterKeys == {"goals", "assists", "redCards", "yellowCards", "matchesPlayed"}

NoCounters == [k \in CounterKeys |-> Absent]

\* one counter given, the others absent
OneCounter(name, v) == [k \in CounterKeys |-> IF k = name THEN Given(v) ELSE Absent]

\* Request bodies, and the updates handed to updatePlayer.  A key that is
\* absent from a PATCH body has its flag false.
Body(hasJersey, jerseyNumber, hasPosition, position) ==
    [hasJersey |-> hasJersey, jerseyNumber |-> jerseyNumber,
     hasPosition |-> hasPosition, position |-> position,
     isCheckedIn |-> Absent, counters |-> NoCounters, weeklyStats |-> Absent]

\* an object without keys
NoBody == Body(FALSE, 0, FALSE, "absent")

WithCounters(body, counters) == [body EXCEPT !.counters = counters]

\* the jersey numbers sent: both ends of the range and the numbers next to
\* them outside it
JerseyInputs == {MinJersey - 1, MinJersey, MaxJersey, MaxJersey + 1}

\* the positions sent: the first and the last of the enum
BodyKinds == {Kinds[1], Kinds[4]}

CreateBodies == { Body(TRUE, j, TRUE, pos) : j \in JerseyInputs, pos \in BodyKinds }

UpdateBodies ==
    { Body(TRUE, j, FALSE, "absent") : j \in JerseyInputs }
        \cup { Body(FALSE, 0, TRUE, pos) : pos \in BodyKinds }

\* A schema that tests jerseyNumber only.
ValidatesJerseyOnly(body) ==
    body.hasJersey => (body.jerseyNumber >= MinJersey /\ body.jerseyNumber <= MaxJersey)

\* insertPlayerSchema.parse / insertPlayerSchema.partial().parse: the range
\* test of jerseyNumber and the min(0) of the five counters (the bodies
\* drawn carry a position of the enum)
Validates(body) ==
    /\ body.hasJersey => (body.jerseyNumber >= MinJersey /\ body.jerseyNumber <= MaxJersey)
    /\ \A k \in CounterKeys : \A v \in body.counters[k] : v >= 0

\* db.select().from(players).where(eq(players.jerseyNumber, n)) : player || undefined
getPlayerByJerseyNumber(n) ==
    IF \E r \in table : r.jerseyNumber = n
    THEN CHOOSE r \in table : r.jerseyNumber = n
    ELSE NoRow

\* A column without its constraint.
NeverViolated(rows, id, n) == FALSE

\* jersey_number ... unique(): the statement fails when another row holds n
UniqueViolated(rows, id, n) == \E r \in rows : r.id # id /\ r.jerseyNumber = n

\* insertPlayer.goals || 0
OrZero(key) == IF key = Absent THEN 0 ELSE ValueOf(key)

\* the row createPlayer inserts
NewRow(id, body) ==
    [Row(id, body.position,
         Stats(OrZero(body.counters.goals), OrZero(body.counters.assists),
               OrZero(body.counters.redCards), OrZero(body.counters.yellowCards),
               OrZero(body.counters.matchesPlayed)),
         JSONStringify(<<body.position>>))
        EXCEPT !.jerseyNumber = body.jerseyNumber]

\* the column keeps its value when the key is absent
SetKey(old, key) == IF key = Absent THEN old ELSE ValueOf(key)

\* An update that also pushes a new position onto positionHistory.
SetUpdatesAppending(r, body) ==
    [r EXCEPT !.jerseyNumber = IF body.hasJersey THEN body.jerseyNumber ELSE @,
              !.position = IF body.hasPosition THEN body.position ELSE @,
              !.positionHistory =
                  IF body.hasPosition /\ body.position # r.position
                  THEN JSONStringify(Append(JSONParse(@).items, body.position))
                  ELSE @,
              !.isCheckedIn = SetKey(@, body.isCheckedIn),
              !.goals = SetKey(@, body.counters.goals),
              !.assists = SetKey(@, body.counters.assists),
              !.redCards = SetKey(@, body.counters.redCards),
              !.yellowCards = SetKey(@, body.counters.yellowCards),
              !.matchesPlayed = SetKey(@, body.counters.matchesPlayed),
              !.weeklyStats = SetKey(@, body.weeklyStats)]

\* .set(updates) on one row
SetUpdates(r, body) ==
    [r EXCEPT !.jerseyNumber = IF body.hasJersey THEN body.jerseyNumber ELSE @,
              !.position = IF body.hasPosition THEN body.position ELSE @,
              !.isCheckedIn = SetKey(@, body.isCheckedIn),
              !.goals = SetKey(@, body.counters.goals),
              !.assists = SetKey(@, body.counters.assists),
              !.redCards = SetKey(@, body.counters.redCards),
              !.yellowCards = SetKey(@, body.counters.yellowCards),
              !.matchesPlayed = SetKey(@, body.counters.matchesPlayed),
              !.weeklyStats = SetKey(@, body.weeklyStats)]

\* requests received so far
Started == response.n + Cardinality({ c \in Clients : pending[c] # NoRequest })

\* res.status(...).json(...)
Respond(status, request) ==
    response' = [n |-> response.n + 1, status |-> status, request |-> request]

\* POST /api/players up to the await of createPlayer: validation and the
\* look-up of the jersey number.
PostPlayer(c, body) ==
    /\ pending[c] = NoRequest
    /\ Started < MaxRequests
    /\ LET request == [op |-> "create", id |-> 0, body |-> body] IN
       IF ~ Validates(body)
       THEN Respond(400, request) /\ UNCHANGED pending
       ELSE IF getPlayerByJerseyNumber(body.jerseyNumber) # NoRow
       THEN Respond(400, request) /\ UNCHANGED pending
       ELSE pending' = [pending EXCEPT ![c] = request] /\ UNCHANGED response
    /\ UNCHANGED <<table, nextId, suggester, page>>

\* createPlayer: the insert, and the response (201, or 500 from the catch
\* when the statement fails).  The serial is drawn before the constraint is
\* tested.
CreatePlayer(c) ==
    /\ pending[c] # NoRequest
    /\ pending[c].op = "create"
    /\ nextId' = nextId + 1
    /\ pending' = [pending EXCEPT ![c] = NoRequest]
    /\ IF UniqueViolated(table, nextId, pending[c].body.jerseyNumber)
       THEN Respond(500, pending[c]) /\ UNCHANGED table
       ELSE /\ table' = table \cup { NewRow(nextId, pending[c].body) }
            /\ Respond(201, pending[c])
    /\ UNCHANGED <<suggester, page>>

\* PATCH /api/players/:id up to the await of updatePlayer.
PatchPlayer(c, id, body) ==
    /\ pending[c] = NoRequest
    /\ Started < MaxRequests
    /\ LET request == [op |-> "update", id |-> id, body |-> body]
           existingPlayer == getPlayerByJerseyNumber(body.jerseyNumber)
       IN  IF ~ Validates(body)
           THEN Respond(400, request) /\ UNCHANGED pending
           ELSE IF body.hasJersey /\ existingPlayer # NoRow /\ existingPlayer.id # id
           THEN Respond(400, request) /\ UNCHANGED pending
           ELSE pending' = [pending EXCEPT ![c] = request] /\ UNCHANGED response
    /\ UNCHANGED <<table, nextId, suggester, page>>

\* updatePlayer: the update, and the response (200, 404 for no row, or 500
\* from the catch when the statement fails).
UpdatePlayer(c) ==
    /\ pending[c] # NoRequest
    /\ pending[c].op = "update"
    /\ pending' = [pending EXCEPT ![c] = NoRequest]
    /\ LET id == pending[c].id
           body == pending[c].body
       IN  IF ~ \E r \in table : r.id = id
           THEN Respond(404, pending[c]) /\ UNCHANGED table
           ELSE IF body.hasJersey /\ UniqueViolated(table, id, body.jerseyNumber)
           THEN Respond(500, pending[c]) /\ UNCHANGED table
           ELSE /\ table' = { IF r.id = id THEN SetUpdates(r, body) ELSE r : r \in table }
                /\ Respond(200, pending[c])
    /\ UNCHANGED <<nextId, suggester, page>>

\* the ids a PATCH names: the first two of the serial
PatchIds == {1, 2}

NextRoster ==
    \/ \E c \in Clients, body \in CreateBodies : PostPlayer(c, body)
    \/ \E c \in Clients : CreatePlayer(c)
    \/ \E c \in Clients, id \in PatchIds, body \in UpdateBodies : PatchPlayer(c, id, body)
    \/ \E c \in Clients : UpdatePlayer(c)

InitRoster ==
    /\ players = << >>
    /\ InitPage
    /\ table = {}
    /\ InitServer

SpecRoster == InitRoster /\ [][NextRoster]_vars

---------------------------------------------------------------------------
(* The other routes that write the players table *)

\* POST /api/players/:id/toggle-checkin up to the await of the update:
\* getPlayer, and the negation of the value read.
ToggleCheckIn(c, id) ==
    /\ pending[c] = NoRequest
    /\ Started < MaxRequests
    /\ LET request == [op |-> "toggle", id |-> id, body |-> NoBody]
           read == getPlayer(id)
       IN  IF read = NoRow
           THEN Respond(404, request) /\ UNCHANGED pending
           ELSE /\ pending' = [pending EXCEPT ![c] =
                       [request EXCEPT !.body.isCheckedIn = Given(~ read.isCheckedIn)]]
                /\ UNCHANGED response
    /\ UNCHANGED <<table, nextId, suggester, page>>

\* toggleCheckIn: the update, and the response (200, or 404 when no row was
\* updated).
ToggleWrite(c) ==
    /\ pending[c] # NoRequest
    /\ pending[c].op = "toggle"
    /\ pending' = [pending EXCEPT ![c] = NoRequest]
    /\ IF \E r \in table : r.id = pending[c].id
       THEN /\ table' = { IF r.id = pending[c].id THEN SetUpdates(r, pending[c].body) ELSE r :
                            r \in table }
            /\ Respond(200, pending[c])
       ELSE Respond(404, pending[c]) /\ UNCHANGED table
    /\ UNCHANGED <<nextId, suggester, page>>

\* The words of a text: a capitalized word stands for the player whose name
\* it is, a run of digits carries its number.
Word(w) == [word |-> w, n |-> 0]

Name(id) == [word |-> "name", n |-> id]

Digits(n) == [word |-> "digits", n |-> n]

\* the places where a word a is followed by a word b
Follows(text, a, b) ==
    { k \in 1..(Len(text) - 1) : text[k].word = a /\ text[k + 1].word = b }

\* where a regular expression matches first
First(places) == CHOOSE k \in places : \A j \in places : k <= j

\* lowerText.includes(...)
Includes(text, words) == \E k \in 1..Len(text) : text[k].word \in words

\* !stats.goals : the key is absent or 0
Falsy(key) == key = Absent \/ ValueOf(key) = 0

\* goalPatterns, then the single event pattern
ParsedGoals(text) ==
    LET matched ==
            IF Follows(text, "digits", "goals") # {}
            THEN Given(text[First(Follows(text, "digits", "goals"))].n)
            ELSE IF Follows(text, "scored", "digits") # {}
            THEN Given(text[First(Follows(text, "scored", "digits")) + 1].n)
            ELSE IF Follows(text, "digits", "times") # {}
            THEN Given(text[First(Follows(text, "digits", "times"))].n)
            ELSE Absent
    IN  IF Includes(text, {"scored"}) /\ Falsy(matched) THEN Given(1) ELSE matched

\* assistPatterns, then the single event pattern
ParsedAssists(text) ==
    LET matched ==
            IF Follows(text, "digits", "assists") # {}
            THEN Given(text[First(Follows(text, "digits", "assists"))].n)
            ELSE IF Follows(text, "assisted", "digits") # {}
            THEN Given(text[First(Follows(text, "assisted", "digits")) + 1].n)
            ELSE Absent
    IN  IF Includes(text, {"assist", "assists", "assisted"}) /\ Falsy(matched)
        THEN Given(1) ELSE matched

\* parseStatsFromText: null, or the player named first and the keys found
parseStatsFromText(text) ==
    LET names == { k \in 1..Len(text) : text[k].word = "name" }
        stats == [goals |-> ParsedGoals(text),
                  assists |-> ParsedAssists(text),
                  redCards |-> IF Includes(text, {"red card"}) THEN Given(1) ELSE Absent,
                  yellowCards |-> IF Includes(text, {"yellow card"}) THEN Given(1) ELSE Absent]
    IN  IF names = {} \/ \A k \in DOMAIN stats : stats[k] = Absent
        THEN [isNull |-> TRUE, playerName |-> 0, stats |-> stats]
        ELSE [isNull |-> FALSE, playerName |-> text[First(names)].n, stats |-> stats]

\* stats.goals !== undefined ? player.goals + stats.goals : player.goals
Added(old, key) == IF key = Absent THEN old ELSE old + ValueOf(key)

\* POST /api/stats/natural up to the await of getPlayer in updatePlayerStats:
\* the parse and the search of the player by name in getAllPlayers.
NaturalStats(c, text) ==
    /\ pending[c] = NoRequest
    /\ Started < MaxRequests
    /\ LET parsed == parseStatsFromText(text)
           request == [op |-> "stats", id |-> parsed.playerName, body |-> NoBody,
                       stats |-> parsed.stats]
       IN  IF parsed.isNull
           THEN Respond(400, request) /\ UNCHANGED pending
           ELSE IF ~ \E r \in getAllPlayers : r.id = parsed.playerName
           THEN Respond(404, request) /\ UNCHANGED pending
           ELSE pending' = [pending EXCEPT ![c] = request] /\ UNCHANGED response
    /\ UNCHANGED <<table, nextId, suggester, page>>

\* updatePlayerStats up to the await of updatePlayer: getPlayer and the four
\* sums.  Without a row it returns undefined and the route answers.
StatsRead(c) ==
    /\ pending[c] # NoRequest
    /\ pending[c].op = "stats"
    /\ LET read == getPlayer(pending[c].id)
           stats == pending[c].stats
       IN  IF read = NoRow
           THEN /\ pending' = [pending EXCEPT ![c] = NoRequest]
                /\ Respond(200, pending[c])
           ELSE /\ pending' = [pending EXCEPT ![c] =
                       [op |-> "statsUpdate", id |-> pending[c].id, stats |-> stats,
                        body |-> WithCounters(NoBody,
                            [goals |-> Given(Added(read.goals, stats.goals)),
                             assists |-> Given(Added(read.assists, stats.assists)),
                             redCards |-> Given(Added(read.redCards, stats.redCards)),
                             yellowCards |-> Given(Added(read.yellowCards, stats.yellowCards)),
                             matchesPlayed |-> Absent])]]
                /\ UNCHANGED response
    /\ UNCHANGED <<table, nextId, suggester, page>>

\* updatePlayerStats: its updatePlayer, and the response of the route
StatsWrite(c) ==
    /\ pending[c] # NoRequest
    /\ pending[c].op = "statsUpdate"
    /\ pending' = [pending EXCEPT ![c] = NoRequest]
    /\ table' = { IF r.id = pending[c].id THEN SetUpdates(r, pending[c].body) ELSE r :
                    r \in table }
    /\ Respond(200, pending[c])
    /\ UNCHANGED <<nextId, suggester, page>>

\* weeklyStats.lastWeek = weeklyStats.thisWeek || {...}; weeklyStats.thisWeek = {...}
Rolled(weeklyStats) == [thisWeek |-> NoWeek, lastWeek |-> weeklyStats.thisWeek]

\* the players not yet updated, or the response when none is left
WeeklyLoop(c, request, rows) ==
    IF rows = {}
    THEN /\ pending' = [pending EXCEPT ![c] = NoRequest]
         /\ Respond(200, request)
    ELSE /\ pending' = [pending EXCEPT ![c] = [request EXCEPT !.rows = rows]]
         /\ UNCHANGED response

\* POST /api/admin/update-weekly-stats, updateWeeklyStats up to its first
\* updatePlayer: getAllPlayers.
UpdateWeeklyStats(c) ==
    /\ pending[c] = NoRequest
    /\ Started < MaxRequests
    /\ WeeklyLoop(c, [op |-> "weekly", id |-> 0, body |-> NoBody, rows |-> {}], getAllPlayers)
    /\ UNCHANGED <<table, nextId, suggester, page>>

\* One turn of its loop: the updatePlayer of the next player read, in the
\* order of the jersey numbers.
WeeklyUpdate(c) ==
    /\ pending[c] # NoRequest
    /\ pending[c].op = "weekly"
    /\ LET rows == pending[c].rows
           next == CHOOSE r \in rows : \A q \in rows : r.jerseyNumber <= q.jerseyNumber
           updates == [NoBody EXCEPT !.weeklyStats = Given(Rolled(next.weeklyStats))]
       IN  /\ table' = { IF r.id = next.id THEN SetUpdates(r, updates) ELSE r : r \in table }
           /\ WeeklyLoop(c, pending[c], rows \ {next})
    /\ UNCHANGED <<nextId, suggester, page>>

\* The bodies sent to the service: registrations with the two ends of the
\* jersey range, without a counter, with one, and with a negative one ...
ServiceCreateBodies ==
    { Body(TRUE, MinJersey, TRUE, Kinds[2]),
      WithCounters(Body(TRUE, MaxJersey, TRUE, Kinds[2]), OneCounter("matchesPlayed", 1)),
      WithCounters(Body(TRUE, MaxJersey, TRUE, Kinds[2]), OneCounter("redCards", -1)) }

\* ... updates of the position or of one counter ...
ServiceUpdateBodies ==
    { Body(FALSE, 0, TRUE, Kinds[4]),
      WithCounters(NoBody, OneCounter("goals", -1)),
      WithCounters(NoBody, OneCounter("yellowCards", 1)) }

\* ... and texts: goals for the first player, an assist and a card for the
\* second, a text without a number and a text without a name.
StatsTexts ==
    { <<Name(1), Word("scored"), Digits(2), Word("goals")>>,
      <<Name(2), Word("-"), Digits(1), Word("assists"), Word("yellow card")>>,
      <<Name(1), Word("played")>>,
      <<Word("scored"), Digits(1)>> }

NextService ==
    \/ \E c \in Clients, body \in ServiceCreateBodies : PostPlayer(c, body)
    \/ \E c \in Clients : CreatePlayer(c)
    \/ \E c \in Clients, id \in PatchIds, body \in ServiceUpdateBodies : PatchPlayer(c, id, body)
    \/ \E c \in Clients : UpdatePlayer(c)
    \/ \E c \in Clients, id \in PatchIds : ToggleCheckIn(c, id)
    \/ \E c \in Clients : ToggleWrite(c)
    \/ \E c \in Clients, text \in StatsTexts : NaturalStats(c, text)
    \/ \E c \in Clients : StatsRead(c)
    \/ \E c \in Clients : StatsWrite(c)
    \/ \E c \in Clients : UpdateWeeklyStats(c)
    \/ \E c \in Clients : WeeklyUpdate(c)
    \/ \E id \in PatchIds : SuggestReadPlayer(id)
    \/ SuggestReadRoster

SpecService == InitRoster /\ [][NextService]_vars

---------------------------------------------------------------------------
(* What the properties speak about, stated on the player list itself *)

\* ids of the checked-in players of the list
CheckedInIds == { players[n].id : n \in { m \in 1..Len(players) : players[m].isCheckedIn } }

\* number of checked-in players
Available == Cardinality(CheckedInIds)

\* ids of the checked-in players registered at a kind
RegisteredAt(kind) ==
    { players[n].id : n \in { m \in 1..Len(players) :
                                players[m].isCheckedIn /\ players[m].position = kind } }

\* sum of the four counts of a formation
Total(f) ==
    f.positions["goalkeeper"] + f.positions["defender"]
        + f.positions["midfielder"] + f.positions["forward"]

\* the call has ended
Ended == apc = "done"

\* the call has ended with a lineup
Returned == apc = "done" /\ toast.title = "Team Formation Generated!"

\* ids of the lineup
LineupIds == { generatedTeam[n].id : n \in 1..Len(generatedTeam) }

\* lineup entries assigned to a kind
AssignedTo(kind) == { n \in 1..Len(generatedTeam) : generatedTeam[n].position = kind }

\* the gap-filling loop ended on an empty pool with slots left
EarlyStop == apc = "done" /\ gapIdx < Len(positionsNeeded)

---------------------------------------------------------------------------
(* C1 *)

\* C1: for a non-empty checked-in roster and a formation whose total is at
\* most the number of checked-in players, the call ends with a lineup of
\* exactly `required` entries, no player id twice, every assigned position
\* one of the four kinds, and the gap-filling loop never stops on an
\* exhausted pool, whatever the random draws were.
C1_LineupComplete ==
    (Ended /\ Available > 0 /\ Total(formation) <= Available) =>
        /\ Returned
        /\ Len(generatedTeam) = Total(formation)
        /\ \A a, b \in 1..Len(generatedTeam) :
               a # b => generatedTeam[a].id # generatedTeam[b].id
        /\ \A a \in 1..Len(generatedTeam) : generatedTeam[a].position \in KindSet
        /\ LineupIds \subseteq CheckedInIds
        /\ ~ EarlyStop

\* a lineup of three that needed the gap-filling pass
C1_Witness ==
    /\ Returned
    /\ Len(generatedTeam) = 3
    /\ Len(positionsNeeded) = 2
    /\ Total(formation) = Available

---------------------------------------------------------------------------
(* C2 *)

\* C2 as stated: every checked-in roster smaller than the formation's total
\* gets the InsufficientPlayers error carrying required and available.
C2_Original ==
    (Ended /\ Available < Total(formation)) =>
        /\ toast.title = "Insufficient Players"
        /\ toast.required = Total(formation)
        /\ toast.available = Available
        /\ generatedTeam = << >>

\* C2 amended: every NON-EMPTY checked-in roster smaller than the
\* formation's total gets the InsufficientPlayers error, never a lineup, and
\* the error carries required = sum of the counts and available = number of
\* checked-in players.  (The empty roster gets NoPlayersAvailable.)
C2_Insufficient ==
    (Ended /\ Available > 0 /\ Available < Total(formation)) =>
        /\ toast.title = "Insufficient Players"
        /\ toast.required = Total(formation)
        /\ toast.available = Available
        /\ generatedTeam = << >>
        /\ selectedFormation = NoFormation

\* two checked-in players against a formation of three
C2_Witness ==
    /\ Ended
    /\ Available = 2
    /\ Total(formation) = 3
    /\ toast.title = "Insufficient Players"

---------------------------------------------------------------------------
(* C3 *)

\* C3: with no player checked in the call ends with NoPlayersAvailable for
\* every formation, the all-zero formation and the catalog included, and no
\* lineup is produced.
C3_NoPlayers ==
    (Ended /\ Available = 0) =>
        /\ toast.title = "No Players Available"
        /\ generatedTeam = << >>
        /\ selectedFormation = NoFormation

\* registered players, none checked in, asked for the all-zero formation
C3_Witness ==
    /\ Ended
    /\ Len(players) > 0
    /\ Available = 0
    /\ Total(formation) = 0
    /\ toast.title = "No Players Available"

---------------------------------------------------------------------------
(* C6 *)

\* every kind has at least as many checked-in players as the formation asks
EnoughOfEachKind(f) == \A k \in KindSet : Cardinality(RegisteredAt(k)) >= f.positions[k]

\* the checked-in roster has exactly the formation's distribution
ExactMatch(f) == \A k \in KindSet : Cardinality(RegisteredAt(k)) = f.positions[k]

\* C6: when every kind has at least the formation's count of checked-in
\* players, the call never enters the gap-filling pass and every lineup player
\* is assigned their own registered position; when the roster matches the
\* distribution exactly, all checked-in players are in the lineup.
C6_PreferredOnly ==
    (apc # "idle" /\ EnoughOfEachKind(formation)) =>
        /\ apc # "gap"
        /\ positionsNeeded = << >>
        /\ \A n \in 1..Len(selectedPlayers) :
               selectedPlayers[n].id \in RegisteredAt(selectedPlayers[n].position)
        /\ Returned =>
               /\ \A n \in 1..Len(generatedTeam) :
                      generatedTeam[n].id \in RegisteredAt(generatedTeam[n].position)
               /\ Len(generatedTeam) = Total(formation)
               /\ ExactMatch(formation) => LineupIds = CheckedInIds

\* the squad 1 GK, 4 DF, 4 MF, 2 FW under 4-4-2: all eleven in the lineup
C6_Witness ==
    /\ Returned
    /\ formation.name = "4-4-2"
    /\ ExactMatch(formation)
    /\ Cardinality(LineupIds) = 11

---------------------------------------------------------------------------
(* C7 *)

\* twelve checked in, eight of them midfielders, formation 4-3-3
TwelveWithEightMidfielders ==
    /\ Available = 12
    /\ Cardinality(RegisteredAt("midfielder")) = 8
    /\ formation.name = "4-3-3"

\* registered midfielders that are not in the lineup
UnusedMidfielders == RegisteredAt("midfielder") \ LineupIds

\* C7 as stated: the three midfielder slots are filled from the eight
\* midfielders, five midfielders remain unused in the lineup of eleven and the
\* other slots are filled by the non-midfielders.
C7_Original ==
    (Returned /\ TwelveWithEightMidfielders) =>
        /\ Len(generatedTeam) = 11
        /\ \A n \in AssignedTo("midfielder") : generatedTeam[n].id \in RegisteredAt("midfielder")
        /\ Cardinality(UnusedMidfielders) = 5
        /\ \A n \in 1..Len(generatedTeam) :
               generatedTeam[n].position # "midfielder"
                   => generatedTeam[n].id \notin RegisteredAt("midfielder")

\* C7 amended: the preferred pass fills the three midfielder slots from the
\* eight midfielders and leaves five of them in the pool; the lineup has
\* eleven of the twelve players, so the gap-filling pass assigns at least four
\* of those five midfielders to slots of other kinds and at most one
\* midfielder remains unused.
C7_MidfieldersFillGaps ==
    /\ (apc = "gap" /\ gapIdx = 0 /\ TwelveWithEightMidfielders) =>
           /\ Len(SelectSeq(selectedPlayers, LAMBDA sp : sp.position = "midfielder")) = 3
           /\ Len(SelectSeq(remainingPlayers, LAMBDA p : p.position = "midfielder")) = 5
    /\ (Returned /\ TwelveWithEightMidfielders) =>
           /\ Len(generatedTeam) = 11
           /\ Cardinality(AssignedTo("midfielder")) = 3
           /\ \A n \in AssignedTo("midfielder") :
                  generatedTeam[n].id \in RegisteredAt("midfielder")
           /\ Cardinality(UnusedMidfielders) <= 1
           /\ Cardinality({ n \in 1..Len(generatedTeam) :
                  /\ generatedTeam[n].position # "midfielder"
                  /\ generatedTeam[n].id \in RegisteredAt("midfielder") }) >= 4

\* a lineup of eleven in which a non-midfielder is the player left out
C7_Witness ==
    /\ Returned
    /\ TwelveWithEightMidfielders
    /\ Len(generatedTeam) = 11
    /\ Cardinality(LineupIds \cap RegisteredAt("midfielder")) = 8

---------------------------------------------------------------------------
(* C10 *)

\* C10: no step of a call, successful or failing, changes the player list or
\* any player record.
C10_InputUntouched == [][players' = players]_vars

\* a call that went through both passes and returned a lineup
C10_Witness ==
    /\ Returned
    /\ Len(players) > 0
    /\ Len(positionsNeeded) > 0
    /\ Len(generatedTeam) = Len(players)

---------------------------------------------------------------------------
(* What the suggester properties speak about *)

\* a suggestion has been returned for a row that exists
Suggested == spc = "done" /\ player # NoRow

\* the stored history is a text JSON.parse accepts
Decodable(p) == p.positionHistory \notin RejectedTexts

\* the stored history is the JSON text of the list h
HistoryIs(p, h) == p.positionHistory = JSONStringify(h)

\* the kinds a stored text lists, in their order
Listed(p) == SelectSeq(p.positionHistory, LAMBDA tok : tok \in KindSet)

\* neither performance test holds
NoPerformance(p) == p.goals < 3 /\ p.assists < 3

\* no experience rule holds
NoExperience(p) ==
    ~ ( /\ p.matchesPlayed > 5
        /\ \/ 2 * p.goals > p.matchesPlayed
           \/ 10 * p.assists > 3 * p.matchesPlayed
           \/ p.redCards + p.yellowCards = 0 )

\* the largest team need of the roster read
MaxNeed(rows) ==
    LET needs == analyzeTeamPositionNeeds(rows)
    IN  CHOOSE n \in { needs[k] : k \in KindSet } : \A k \in KindSet : needs[k] <= n

\* occurrences of a kind in a list
Occurrences(h, kind) == Cardinality({ n \in 1..Len(h) : h[n] = kind })

\* kind is the single most frequent kind of the list
SingleMostFrequent(h, kind) ==
    \A other \in KindSet \ {kind} : Occurrences(h, other) < Occurrences(h, kind)

---------------------------------------------------------------------------
(* C4 *)

\* C4: for every well-formed player and every roster read, the empty roster
\* included, the suggester returns one of the four kinds; no error leaves it.
C4_Total ==
    /\ Suggested => suggestion \in KindSet
    /\ suggestion # "raised"

\* a suggestion computed on the empty roster
C4_Witness ==
    /\ Suggested
    /\ rule = "default"
    /\ allPlayers = {}
    /\ suggestion \in KindSet

---------------------------------------------------------------------------
(* C5 *)

\* C5: for a player with decodable history, goals >= 3 gives forward, and
\* goals < 3 with assists >= 3 gives midfielder, whatever the roster, the
\* matches played, the cards, the history and the registered position are.
C5_PerformanceFirst ==
    (Suggested /\ Decodable(player)) =>
        /\ player.goals >= 3 => suggestion = "forward"
        /\ (player.goals < 3 /\ player.assists >= 3) => suggestion = "midfielder"

\* the goalkeeper with 5 goals in 1 match, in a roster of three
C5_Witness ==
    /\ Suggested
    /\ player.goals = 5
    /\ player.matchesPlayed = 1
    /\ player.position = "goalkeeper"
    /\ Cardinality(table) = 3
    /\ suggestion = "forward"

---------------------------------------------------------------------------
(* C8 *)

\* C8 as stated: every player with matchesPlayed > 5 and
\* goals / matchesPlayed > 0.5 is suggested forward, whatever the roster and
\* the history are.
C8_Claim ==
    (Suggested /\ player.matchesPlayed > 5 /\ 2 * player.goals > player.matchesPlayed)
        => suggestion = "forward"

---------------------------------------------------------------------------
(* C9 *)

\* C9: when performance, experience and team needs do not decide (maximum
\* need of the roster read at most 1) and the history has more than one entry
\* with a single most frequent kind, the suggestion is that kind, whatever the
\* registered position is.
C9_MostFrequent ==
    ( /\ Suggested
      /\ NoPerformance(player)
      /\ NoExperience(player)
      /\ MaxNeed(allPlayers) <= 1
      /\ Decodable(player)
      /\ Len(Listed(player)) > 1 )
    => \A kind \in KindSet :
           SingleMostFrequent(Listed(player), kind) => suggestion = kind

\* no match played, history defender, defender, midfielder, registered forward
C9_Witness ==
    /\ Suggested
    /\ player.matchesPlayed = 0
    /\ player.position = "forward"
    /\ HistoryIs(player, <<"defender", "defender", "midfielder">>)
    /\ rule = "history"
    /\ suggestion = "defender"

---------------------------------------------------------------------------
(* C11 *)

\* C11: every player of a generated lineup, and every player selected while
\* the lineup is being built, has isCheckedIn true in the player list the
\* call read; a player who is not checked in never appears in a lineup.
C11_CheckedInOnly ==
    /\ \A n \in 1..Len(generatedTeam) :
           \E m \in 1..Len(players) :
               players[m].id = generatedTeam[n].id /\ players[m].isCheckedIn
    /\ \A n \in 1..Len(selectedPlayers) :
           \E m \in 1..Len(players) :
               players[m].id = selectedPlayers[n].id /\ players[m].isCheckedIn

\* a lineup that needed the gap-filling pass, from a list with a player who
\* is not checked in
C11_Witness ==
    /\ Returned
    /\ Len(generatedTeam) = 2
    /\ Len(positionsNeeded) > 0
    /\ Available < Len(players)

---------------------------------------------------------------------------
(* C12 *)

\* no two rows of the table hold the same jersey number
JerseysUnique == \A a, b \in table : a.jerseyNumber = b.jerseyNumber => a = b

\* every jersey number of the table is between 1 and 99
JerseysInRange == \A r \in table : r.jerseyNumber >= 1 /\ r.jerseyNumber <= 99

\* the request answered by this step asked for a number another row holds
AnsweredTaken ==
    /\ response'.n # response.n
    /\ response'.request.body.hasJersey
    /\ \E r \in table :
           /\ r.jerseyNumber = response'.request.body.jerseyNumber
           /\ (response'.request.op = "create" \/ r.id # response'.request.id)

\* C12: under every interleaving of create and update requests no two rows
\* hold the same jersey number and every jersey number is between 1 and 99;
\* a create or update asking for a taken number is answered with an error and
\* leaves the table unchanged.
C12_JerseyUnique ==
    /\ [](JerseysUnique /\ JerseysInRange)
    /\ [][AnsweredTaken => (table' = table /\ response'.status >= 400)]_vars

\* two creates of the same number both passed the look-up; the second insert
\* failed on the constraint
C12_Witness ==
    /\ Cardinality(table) = 1
    /\ response.status = 500
    /\ response.request.op = "create"
    /\ \E r \in table : r.jerseyNumber = response.request.body.jerseyNumber

---------------------------------------------------------------------------
(* C13 *)

\* the history-frequency rule is the one that decides: no earlier rule
\* holds and the stored history lists more than one entry
HistoryDecides ==
    /\ Suggested
    /\ NoPerformance(player)
    /\ NoExperience(player)
    /\ MaxNeed(allPlayers) <= 1
    /\ Decodable(player)
    /\ Len(Listed(player)) > 1

\* the kind of largest count that occurs first in the list
FirstMostFrequent(h) ==
    h[CHOOSE n \in 1..Len(h) :
        /\ \A kind \in KindSet : Occurrences(h, kind) <= Occurrences(h, h[n])
        /\ \A m \in 1..(n - 1) : Occurrences(h, h[m]) < Occurrences(h, h[n])]

\* C13 as stated: when the history-frequency rule decides and several kinds
\* share the largest count, the suggestion is the one of them that occurs
\* first in the history.
C13_Claim == HistoryDecides => suggestion = FirstMostFrequent(Listed(player))

---------------------------------------------------------------------------
(* Team needs, computed from the ratios themselves *)

\* the ideal ratios in tenths: 0.10, 0.40, 0.40, 0.20
Tenths(kind) ==
    CASE kind = "goalkeeper" -> 1
      [] kind = "defender"   -> 4
      [] kind = "midfielder" -> 4
      [] kind = "forward"    -> 2

\* the least integer that is at least x / 10
CeilOfTenths(x) == CHOOSE c \in 0..x : 10 * c >= x /\ 10 * (c - 1) < x

\* max(0, ceil(total * ratio) - current)
NeedOf(rows, kind) ==
    LET ideal == CeilOfTenths(Cardinality(rows) * Tenths(kind))
        current == Cardinality({ r \in rows : r.position = kind })
    IN  IF ideal > current THEN ideal - current ELSE 0

\* the largest of the four needs
LargestNeed(rows) ==
    CHOOSE n \in { NeedOf(rows, k) : k \in KindSet } :
        \A k \in KindSet : NeedOf(rows, k) <= n

\* the first kind, in the order goalkeeper, defender, midfielder, forward,
\* that has the largest need
FirstMostNeeded(rows) ==
    IF NeedOf(rows, "goalkeeper") = LargestNeed(rows) THEN "goalkeeper"
    ELSE IF NeedOf(rows, "defender") = LargestNeed(rows) THEN "defender"
    ELSE IF NeedOf(rows, "midfielder") = LargestNeed(rows) THEN "midfielder"
    ELSE "forward"

\* the roster of the call: the rows read, or the table when the call
\* returned without reading them
Roster == IF allPlayers # {} THEN allPlayers ELSE table

---------------------------------------------------------------------------
(* C14 *)

\* C14 as stated: when performance and experience return nothing and the
\* largest of the four team needs is greater than 1, the suggestion is the
\* first kind, in the order goalkeeper, defender, midfielder, forward, that
\* has the largest need; when the largest need is 0 or 1 the team-needs rule
\* returns nothing.
C14_Claim ==
    (Suggested /\ NoPerformance(player) /\ NoExperience(player)) =>
        /\ LargestNeed(Roster) > 1 => suggestion = FirstMostNeeded(Roster)
        /\ LargestNeed(Roster) <= 1 => rule # "needs"

---------------------------------------------------------------------------
(* C15 *)

\* C15: for each of the four kinds the need returned is
\* max(0, ceil(total * ratio) - current) with the ratios 0.10, 0.40, 0.40,
\* 0.20, total the number of rows read and current the number of them
\* registered at the kind; it is a non-negative integer, and 0 for the empty
\* roster.
C15_Needs ==
    \A k \in KindSet :
        /\ positionNeeds[k] = NeedOf(allPlayers, k)
        /\ positionNeeds[k] \in Nat
        /\ allPlayers = {} => positionNeeds[k] = 0

\* eleven rows read (ceilings of 1.1, 4.4, 4.4 and 2.2) with two forwards
\* missing
C15_Witness ==
    /\ spc = "done"
    /\ Cardinality(allPlayers) = 11
    /\ positionNeeds["forward"] = 2
    /\ positionNeeds["goalkeeper"] = 0

---------------------------------------------------------------------------
(* C16 *)

\* assists / matchesPlayed > 0.3
ManyAssistsPerMatch(p) == 10 * p.assists > 3 * p.matchesPlayed

\* C16 as stated: for a player with goals < 3 and assists < 3 and more than
\* 5 matches, the suggestion is midfielder when assists per match exceed 0.3,
\* otherwise defender when the player has no card, whatever the roster and
\* the history are, and otherwise the experience rules decide nothing; with
\* at most 5 matches the experience rules are never applied.
C16_Claim ==
    (Suggested /\ NoPerformance(player)) =>
        /\ (player.matchesPlayed > 5 /\ ManyAssistsPerMatch(player))
               => suggestion = "midfielder"
        /\ ( /\ player.matchesPlayed > 5
             /\ ~ ManyAssistsPerMatch(player)
             /\ player.redCards + player.yellowCards = 0 )
               => suggestion = "defender"
        /\ ( /\ player.matchesPlayed > 5
             /\ ~ ManyAssistsPerMatch(player)
             /\ player.redCards + player.yellowCards > 0 )
               => rule \notin {"experience", "fallback"}
        /\ player.matchesPlayed <= 5 => rule \notin {"experience", "fallback"}

---------------------------------------------------------------------------
(* C17 *)

\* C17: when no rule holds (goals < 3, assists < 3, no experience rule, the
\* largest team need at most 1, at most one entry in the stored history) the
\* suggestion is the player's registered position.
C17_Default ==
    ( /\ Suggested
      /\ NoPerformance(player)
      /\ NoExperience(player)
      /\ LargestNeed(Roster) <= 1
      /\ Len(Listed(player)) <= 1 )
    => suggestion = player.position

\* the last return reached by a player whose one history entry is another
\* kind than the registered one, in a roster of two or more
C17_Witness ==
    /\ Suggested
    /\ rule = "default"
    /\ Len(Listed(player)) = 1
    /\ Listed(player)[1] # player.position
    /\ Cardinality(allPlayers) >= 2
    /\ suggestion = player.position

---------------------------------------------------------------------------
(* C18 *)

\* what performance, experience and team needs give a player, and the
\* registered position when none of them holds
WithoutHistory(p, rows) ==
    IF p.goals >= 3 THEN "forward"
    ELSE IF p.assists >= 3 THEN "midfielder"
    ELSE IF p.matchesPlayed > 5 /\ 2 * p.goals > p.matchesPlayed THEN "forward"
    ELSE IF p.matchesPlayed > 5 /\ ManyAssistsPerMatch(p) THEN "midfielder"
    ELSE IF p.matchesPlayed > 5 /\ p.redCards + p.yellowCards = 0 THEN "defender"
    ELSE IF LargestNeed(rows) > 1 THEN FirstMostNeeded(rows)
    ELSE p.position

\* C18 as stated: a stored history that cannot be decoded never makes the
\* call raise and touches the history-frequency rule only: the player gets
\* what performance, experience or team needs give, as with a decodable
\* history, and the registered position when none of them holds.
C18_Claim ==
    (Suggested /\ ~ Decodable(player)) =>
        /\ suggestion # "raised"
        /\ suggestion = WithoutHistory(player, Roster)

---------------------------------------------------------------------------
(* C19 *)

\* lineup entries assigned to the kind their player is registered at
OwnKind(kind) == { n \in AssignedTo(kind) : generatedTeam[n].id \in RegisteredAt(kind) }

\* the smaller of two numbers
Smaller(a, b) == IF a <= b THEN a ELSE b

\* C19: in every lineup returned, for each kind the number of players
\* registered at it and assigned to it is the smaller of the formation's
\* count and the number of checked-in players registered at it; so a player
\* is assigned to another kind than the registered one only if more players
\* of the registered kind are checked in than the formation requires.
C19_PreferredBias ==
    Returned =>
        /\ \A kind \in KindSet :
               Cardinality(OwnKind(kind))
                   = Smaller(formation.positions[kind], Cardinality(RegisteredAt(kind)))
        /\ \A n \in 1..Len(generatedTeam) : \A kind \in KindSet :
               ( /\ generatedTeam[n].id \in RegisteredAt(kind)
                 /\ generatedTeam[n].position # kind )
               => Cardinality(RegisteredAt(kind)) > formation.positions[kind]

\* a lineup of three in which a player fills a slot of another kind
C19_Witness ==
    /\ Returned
    /\ Len(generatedTeam) = 3
    /\ \E n \in 1..3 : \E kind \in KindSet :
           /\ generatedTeam[n].id \in RegisteredAt(kind)
           /\ generatedTeam[n].position # kind
           /\ formation.positions[kind] > 0

---------------------------------------------------------------------------
(* C20 *)

\* place of a kind in the order goalkeeper, defender, midfielder, forward
Place(kind) ==
    CASE kind = "goalkeeper" -> 1
      [] kind = "defender"   -> 2
      [] kind = "midfielder" -> 3
      [] kind = "forward"    -> 4

\* ids selected so far
SelectedIds == { selectedPlayers[n].id : n \in 1..Len(selectedPlayers) }

\* ids of the pool of the gap-filling pass
PoolIds == { remainingPlayers[n].id : n \in 1..Len(remainingPlayers) }

\* number of players selected before the gap-filling pass began
BeforeGap == Len(selectedPlayers) - gapIdx

\* C20: a lineup returned has, for each kind, exactly the formation's count
\* of players assigned to it; the slots the preferred pass left unfilled are
\* listed in the order goalkeeper, defender, midfielder, forward and filled
\* in that order, each by a player not yet selected, and the pool they are
\* drawn from is all the checked-in players not yet selected, whatever their
\* registered position.
C20_GapFilling ==
    /\ Returned => \A kind \in KindSet :
                       Cardinality(AssignedTo(kind)) = formation.positions[kind]
    /\ \A a, b \in 1..Len(positionsNeeded) :
           a <= b => Place(positionsNeeded[a]) <= Place(positionsNeeded[b])
    /\ \A j \in 1..gapIdx :
           /\ selectedPlayers[BeforeGap + j].position = positionsNeeded[j]
           /\ \A n \in 1..(BeforeGap + j - 1) :
                  selectedPlayers[n].id # selectedPlayers[BeforeGap + j].id
    /\ apc = "gap" =>
           /\ PoolIds = CheckedInIds \ SelectedIds
           /\ Cardinality(PoolIds) = Len(remainingPlayers)

\* a lineup whose gap-filling pass filled slots of two kinds
C20_Witness ==
    /\ Returned
    /\ gapIdx = 2
    /\ positionsNeeded = <<"goalkeeper", "forward">>
    /\ Len(generatedTeam) = 3

---------------------------------------------------------------------------
(* C23 *)

\* getSmartPositionSuggestion as one function of a player record and a roster
Cascade(p, rows) ==
    IF BeforeRoster(p).position # "roster"
    THEN BeforeRoster(p).position
    ELSE AfterRoster(p, rows).position

\* The table when getPlayer answered: between the two reads only the row
\* asked for can have been deleted.
TableAtFirstRead == allPlayers \cup {player}

\* C23: a suggestion returned equals the cascade applied to the player record
\* and the roster as they both were at a single moment: the moment of the
\* first read (the row and the table that held it), or the moment of the
\* second read (the roster read then, and in it the row if it is still
\* there, no row otherwise).
C23_Claim ==
    (Suggested /\ rule \in {"needs", "history", "fallback", "default"}) =>
        \/ suggestion = Cascade(player, TableAtFirstRead)
        \/ /\ player \in allPlayers
           /\ suggestion = Cascade(player, allPlayers)
        \/ /\ player \notin allPlayers
           /\ suggestion = "midfielder"

---------------------------------------------------------------------------
(* C24 *)

\* C24: the forward rule of the experience tier never decides a suggestion:
\* a player with more than 5 matches and more than half a goal per match has
\* at least 3 goals, and a suggestion for such a player that got past the
\* parse of the history is forward by the performance tier; no suggestion is
\* forward by the experience tier or by its copy.
C24_ExperienceForwardDead ==
    /\ (Suggested /\ player.matchesPlayed > 5
                  /\ 2 * player.goals > player.matchesPlayed) =>
           /\ player.goals >= 3
           /\ Decodable(player) => (suggestion = "forward" /\ rule = "performance")
    /\ ~ (rule \in {"experience", "fallback"} /\ suggestion = "forward")

\* the player with 6 goals in 10 matches, suggested forward by performance
C24_Witness ==
    /\ Suggested
    /\ player.matchesPlayed = 10
    /\ player.goals = 6
    /\ suggestion = "forward"
    /\ rule = "performance"

---------------------------------------------------------------------------
(* C25 *)

\* the code after getAllPlayers answered with the statements of the second
\* experience check taken out
WithoutFallback(p, rows) ==
    IF LargestNeed(rows) > 1 THEN FirstMostNeeded(rows)
    ELSE IF Len(Listed(p)) > 1
    THEN mostPlayedPosition(p, Listed(p))
    ELSE p.position

\* C25: the second experience check never returns: no suggestion is decided
\* by it, and every suggestion decided after the roster was read is the one
\* the suggester without that check returns for the same player and roster.
C25_FallbackDead ==
    Suggested =>
        /\ rule # "fallback"
        /\ rule \in {"needs", "history", "default"} =>
               suggestion = WithoutFallback(player, allPlayers)

\* a player with more than 5 matches and a card, whom neither experience
\* check decides: the suggestion falls through both to the default
C25_Witness ==
    /\ Suggested
    /\ rule = "default"
    /\ player.matchesPlayed > 5
    /\ player.yellowCards > 0
    /\ Len(Listed(player)) = 1

---------------------------------------------------------------------------
(* C28 *)

\* the call has returned for an id without a row
AnsweredMissing == spc = "done" /\ player = NoRow

\* C28: for an id that matches no player the suggester returns midfielder as
\* its result, and that call reads no roster and changes nothing: the table,
\* the rows read, the needs, the roster routes and the page stay as they were.
C28_MissingPlayer ==
    /\ [](AnsweredMissing =>
            /\ suggestion = "midfielder"
            /\ allPlayers = {}
            /\ \A k \in KindSet : positionNeeds[k] = 0)
    /\ [][AnsweredMissing' =>
            /\ table' = table
            /\ allPlayers' = allPlayers
            /\ positionNeeds' = positionNeeds
            /\ routes' = routes
            /\ page' = page]_vars

\* a suggestion asked for the id after the last row
C28_Witness ==
    /\ AnsweredMissing
    /\ playerId = MaxOthers + 2
    /\ suggestion = "midfielder"
    /\ table # {}

---------------------------------------------------------------------------
(* C26 *)

\* C26: every non-empty roster has a kind with need at least 1 and every
\* roster of 41 or more rows a kind with need at least 2; so on a roster of
\* 41 or more rows every player whom neither the performance nor the
\* experience rules decide is suggested by the team-needs tier, all of them
\* the same kind, and no suggestion comes from the history or default tier.
C26_Claim ==
    /\ table # {} => LargestNeed(table) >= 1
    /\ Cardinality(table) >= 41 => LargestNeed(table) >= 2
    /\ (Suggested /\ Cardinality(Roster) >= 41
                  /\ NoPerformance(player) /\ NoExperience(player)) =>
           /\ rule = "needs"
           /\ suggestion = FirstMostNeeded(Roster)

---------------------------------------------------------------------------
(* What the properties of the service speak about *)

\* a response was sent by this step
Answered == response'.n # response.n

\* the row of an id in a table
RowOf(rows, id) == CHOOSE r \in rows : r.id = id

\* ids of a table
IdsOf(rows) == { r.id : r \in rows }

\* the list a stored history text holds, when it is a well-formed list
LastListed(r) == Listed(r)[Len(Listed(r))]

---------------------------------------------------------------------------
(* C21 *)

\* C21: in every reachable state of the service, after any sequence of
\* registrations, updates, natural-language stat updates and
\* updatePlayerStats calls, the goals, assists, redCards, yellowCards and
\* matchesPlayed of every player are non-negative integers.
C21_CountersNatural ==
    \A r \in table :
        /\ r.goals \in Nat
        /\ r.assists \in Nat
        /\ r.redCards \in Nat
        /\ r.yellowCards \in Nat
        /\ r.matchesPlayed \in Nat

\* a natural-language update has added two goals, and an update asking for a
\* negative counter was refused before
C21_Witness ==
    /\ response.status = 200
    /\ response.request.op = "statsUpdate"
    /\ \E r \in table : r.id = response.request.id /\ r.goals = 2 /\ r.matchesPlayed = 1

---------------------------------------------------------------------------
(* C22 *)

\* C22: positionHistory is an append-only log: it starts as the list holding
\* the registration position, no step removes or rewrites an entry, a step
\* that changes a player's position appends the new position, and so the
\* last entry of every player's history is the player's position.
C22_Claim ==
    /\ [](\A r \in table : Listed(r) # << >> /\ LastListed(r) = r.position)
    /\ [][\A r \in table' :
            IF r.id \in IdsOf(table)
            THEN LET old == RowOf(table, r.id) IN
                 IF r.position = old.position
                 THEN Listed(r) = Listed(old)
                 ELSE Listed(r) = Append(Listed(old), r.position)
            ELSE Listed(r) = <<r.position>>]_vars

---------------------------------------------------------------------------
(* C27 *)

\* C27: the positionHistory of every player created through the service is
\* the one-element list holding the position given at registration, and it
\* stays that list through every update (also of the position), toggle, stat
\* and weekly-stat step; no suggestion is decided by the history tier.
C27_HistoryFixed ==
    /\ [](/\ \A r \in table : \E kind \in KindSet : r.positionHistory = <<"[", kind, "]">>
          /\ rule # "history")
    /\ [][\A r \in table' :
            IF r.id \in IdsOf(table)
            THEN r.positionHistory = RowOf(table, r.id).positionHistory
            ELSE r.positionHistory = <<"[", response'.request.body.position, "]">>]_vars

\* a suggestion for a player whose position was changed after registration
\* and whose weekly stats were rolled
C27_Witness ==
    /\ Suggested
    /\ player.position = "forward"
    /\ player.positionHistory = <<"[", "defender", "]">>
    /\ rule = "default"
    /\ response.request.op = "weekly"

---------------------------------------------------------------------------
(* C29 *)

\* C29: toggleCheckIn is an atomic flip: every completed call on an existing
\* player leaves isCheckedIn the negation of what it was before the call
\* completed (so n completed calls negate the initial value n times, under
\* every interleaving) and changes no other field and no other player; a
\* call on a missing id is answered not found and changes nothing.
C29_Claim ==
    [][(Answered /\ response'.request.op = "toggle") =>
          IF response'.status = 200
          THEN /\ IdsOf(table') = IdsOf(table)
               /\ \A r \in table :
                      RowOf(table', r.id) =
                          IF r.id = response'.request.id
                          THEN [r EXCEPT !.isCheckedIn = ~ r.isCheckedIn]
                          ELSE r
          ELSE /\ response'.status = 404
               /\ table' = table]_vars

---------------------------------------------------------------------------
(* C30 *)

\* the call that ends with this step has failed
Failing ==
    /\ apc # "done"
    /\ apc' = "done"
    /\ toast'.title \in {"No Players Available", "Insufficient Players"}

\* the call that ends with this step has succeeded
Succeeding ==
    /\ apc # "done"
    /\ apc' = "done"
    /\ toast'.title = "Team Formation Generated!"

\* the team shown has, for every kind, the count of the formation shown
TeamOfSelected ==
    /\ Len(generatedTeam) = Total(selectedFormation)
    /\ \A kind \in KindSet :
           Cardinality(AssignedTo(kind)) = selectedFormation.positions[kind]

\* C30: a call that fails with No Players Available or Insufficient Players
\* leaves the generated team and the selected formation as they were; a call
\* that succeeds replaces both in the same step, by its lineup and its
\* argument; so in every state of the page the generated team, when it is
\* not empty, is a lineup of the selected formation.
C30_TeamOfFormation ==
    /\ [](Len(generatedTeam) > 0 => (selectedFormation # NoFormation /\ TeamOfSelected))
    /\ [][Failing => (generatedTeam' = generatedTeam
                        /\ selectedFormation' = selectedFormation)]_vars
    /\ [][Succeeding => (generatedTeam' = selectedPlayers'
                           /\ selectedFormation' = formation'
                           /\ Len(generatedTeam') = Total(formation'))]_vars

\* everyone has checked out after a lineup of two was generated, and the next
\* call failed: the lineup and its formation are still shown
C30_Witness ==
    /\ apc = "done"
    /\ toast.title = "No Players Available"
    /\ Len(generatedTeam) = 2
    /\ selectedFormation.positions = Positions(0, 1, 1, 0)
    /\ formation.positions = Positions(1, 0, 0, 0)

====
